---- MODULE Spec2Model ----
(***************************************************************************)
(* URL shortener: short codes derived from an MD5 prefix in base 62, the   *)
(* collision ladder of generateUniqueCode, the Express handlers that       *)
(* create and resolve records, and the MongoDB collection behind them.     *)
(*                                                                         *)
(* Strings that the code inspects character by character (codes, hex       *)
(* digests) are sequences of one-character strings.  Numbers that exceed   *)
(* 31 bits (digest prefixes, Date.now()) are sequences of hexadecimal      *)
(* digits, most significant first, divided by 62 with long division.       *)
(***************************************************************************)
EXTENDS Integers, Sequences, FiniteSets, TLC

VARIABLES
    records,    \* the Url collection, in insertion order; the index is the _id
    req,        \* per connection: the request being handled and its locals
    nStarted,   \* number of requests received so far
    served,     \* per record: resolutions of it that have been answered
    issued,     \* <<originalUrl, shortCode>> pairs answered by a successful Create
    probe,      \* the encoder under test (specification SpecCodes)
    browser     \* the page's localStorage cache and clock (specification SpecCache)

vars == <<records, req, nStarted, served, issued, probe, browser>>

-----------------------------------------------------------------------------
(* Bounds of the model *)

\* requests received over the whole run
MaxRequests == 4

\* the times Date.now() advances in the browser
MaxTicks == 4

\* the connections on which requests arrive, each handling one at a time
Procs == { 1, 2 }

-----------------------------------------------------------------------------
(* hashUtils.js *)

BASE62 ==
    << "0","1","2","3","4","5","6","7","8","9",
       "A","B","C","D","E","F","G","H","I","J","K","L","M",
       "N","O","P","Q","R","S","T","U","V","W","X","Y","Z",
       "a","b","c","d","e","f","g","h","i","j","k","l","m",
       "n","o","p","q","r","s","t","u","v","w","x","y","z" >>

Radix == 62
CodeLength == 6
MaxAttempts == 10

HexDigits ==
    << "0","1","2","3","4","5","6","7","8","9","a","b","c","d","e","f" >>

HexVal(ch) == (CHOOSE i \in 1..16 : HexDigits[i] = ch) - 1

\* parseInt(hex, 16): the value of a hexadecimal string, as its digits
parseInt16(hex) == [i \in 1..Len(hex) |-> HexVal(hex[i])]

IsZero(num) == \A i \in 1..Len(num) : num[i] = 0

RECURSIVE LongDiv(_, _, _, _)
LongDiv(num, i, carry, quot) ==
    IF i > Len(num)
    THEN [q |-> quot, r |-> carry]
    ELSE LET cur == carry * 16 + num[i]
         IN  LongDiv(num, i + 1, cur % Radix, Append(quot, cur \div Radix))

\* num % 62 and Math.floor(num / 62)
Mod62(num) == LongDiv(num, 1, 0, <<>>).r
Div62(num) == LongDiv(num, 1, 0, <<>>).q

RECURSIVE Base62Loop(_, _)
Base62Loop(num, result) ==
    IF ~IsZero(num)
    THEN Base62Loop(Div62(num), <<BASE62[Mod62(num) + 1]>> \o result)
    ELSE result

generateBase62NoZero(num) == Base62Loop(num, <<>>)
generateBase62(num) ==
    IF IsZero(num) THEN <<BASE62[1]>> ELSE Base62Loop(num, <<>>)

\* while (code.length < 6) code = BASE62[0] + code
PadLoopContinuesShort(code) == Len(code) < CodeLength - 1
PadLoopContinues(code) == Len(code) < CodeLength

RECURSIVE PadLeft(_)
PadLeft(code) ==
    IF PadLoopContinues(code) THEN PadLeft(<<BASE62[1]>> \o code) ELSE code

\* code.substring(0, 6)
Substring05(code) ==
    SubSeq(code, 1, IF Len(code) < CodeLength - 1 THEN Len(code) ELSE CodeLength - 1)
Substring06(code) ==
    SubSeq(code, 1, IF Len(code) < CodeLength THEN Len(code) ELSE CodeLength)

\* crypto.createHash('md5').update(s).digest('hex').substring(0, 8)
Md5Hex8(s) ==
    CASE s = "https://example.com/1548"       -> <<"7","f","1","7","b","0","c","9">>
      [] s = "https://example.com/1548k3x9q2" -> <<"f","5","a","1","3","f","9","0">>
      [] s = "https://example.com/2133"       -> <<"7","f","1","7","b","0","c","9">>
      [] s = "https://example.com/2133k3x9q2" -> <<"f","0","4","7","4","1","b","5">>

\* the tail of generateShortCode, from the 8 hex characters on
ShortCodeOfHex(hex) == Substring06(PadLeft(generateBase62(parseInt16(hex))))

generateShortCode(url, salt) == ShortCodeOfHex(Md5Hex8(url \o salt))

\* the fallback branch of generateUniqueCode, from Date.now() on
TimestampCode(now) == Substring06(PadLeft(generateBase62(now)))

-----------------------------------------------------------------------------
(* validationUtils.js *)

BASE62_CHARS == { BASE62[i] : i \in 1..Radix }

validateShortCodeLengthOnly(code) == Len(code) = CodeLength

validateShortCode(code) ==
    IF Len(code) = 0 \/ Len(code) # CodeLength
    THEN FALSE
    ELSE \A i \in 1..Len(code) : code[i] \in BASE62_CHARS

-----------------------------------------------------------------------------
(* Inputs *)

Urls == { "", "https://example.com/1548", "https://example.com/2133" }

\* Math.random().toString(36).substring(2, 8): "k3x9q2" is a typical value,
\* "" is what Math.random() = 0 gives ("0")
Salts == { "", "k3x9q2" }

\* Date.now(): 1793302352655, 1793302352656 and 1793302352717
Timestamps ==
    { <<1,10,1,8,9,2,6,5,3,0,15>>,
      <<1,10,1,8,9,2,6,5,3,1,0>>,
      <<1,10,1,8,9,2,6,5,3,4,13>> }

\* req.params.shortCode
Params ==
    { <<"2","K","I","j","y","T">>,
      <<"Z","Z","Z","Z","Z","Z">>,
      <<"a","b">>,
      <<"2","K","I","j","y","-">>,
      <<"2","K","I","j","y","T","T">>,
      <<"h","e","a","l","t","h">> }

\* the path segments of GET /<segment>: the codes, the empty segment of GET /
\* and the health path in another case
Segments == Params \cup { <<>>, <<"H","e","a","l","t","h">> }

BaseUrl == "http://localhost:3001"

-----------------------------------------------------------------------------
(* The Url collection (models/Url.js) *)

NewUrl(originalUrl, shortCode, shortUrl) ==
    [ originalUrl |-> originalUrl, shortCode |-> shortCode,
      shortUrl |-> shortUrl, clicks |-> 0 ]

\* Url.findOne({ originalUrl }): the _id of the first match, 0 for null
FindOneByOriginalUrlNever(store, originalUrl) == 0
FindOneByOriginalUrl(store, originalUrl) ==
    IF \E i \in 1..Len(store) : store[i].originalUrl = originalUrl
    THEN CHOOSE i \in 1..Len(store) :
            /\ store[i].originalUrl = originalUrl
            /\ \A j \in 1..(i - 1) : store[j].originalUrl # originalUrl
    ELSE 0

\* Url.findOne({ shortCode }): the _id of the first match, 0 for null
FindOneByShortCodeAny(store, shortCode) == IF Len(store) > 0 THEN 1 ELSE 0
FindOneByShortCode(store, shortCode) ==
    IF \E i \in 1..Len(store) : store[i].shortCode = shortCode
    THEN CHOOSE i \in 1..Len(store) :
            /\ store[i].shortCode = shortCode
            /\ \A j \in 1..(i - 1) : store[j].shortCode # shortCode
    ELSE 0

\* shortCode: { unique: true }: the index admits the insert
UniqueIndexAdmitsAll(store, shortCode) == TRUE
UniqueIndexAdmits(store, shortCode) ==
    \A i \in 1..Len(store) : store[i].shortCode # shortCode

-----------------------------------------------------------------------------
(* Requests *)

NoDoc == [ id |-> 0, originalUrl |-> "", shortCode |-> <<>>, clicks |-> 0 ]

NoRes ==
    [ status |-> 0, error |-> "", originalUrl |-> "", shortUrl |-> <<>>,
      shortCode |-> <<>>, clicks |-> 0, bodyStatus |-> "" ]

Res(status, error) == [ NoRes EXCEPT !.status = status, !.error = error ]

IdleReq ==
    [ pc |-> "idle", op |-> "none", originalUrl |-> "", param |-> <<>>,
      shortCode |-> <<>>, candidate |-> <<>>, attempts |-> 0, nChecks |-> 0,
      answer |-> FALSE, doc |-> NoDoc, res |-> NoRes, nStore |-> 0,
      known |-> {}, failedAt |-> "" ]

CanReceive(p) ==
    /\ req[p].pc \in { "idle", "done" }
    /\ nStarted < MaxRequests

\* checkExists: `!!existing`
checkExistsNever(store, code) == FALSE
checkExists(store, code) == FindOneByShortCode(store, code) # 0

\* the condition of the while loop of generateUniqueCode
LoopContinuesOneMore(exists, attempts) == exists /\ attempts <= MaxAttempts
LoopContinuesWhileExists(exists, attempts) == exists
LoopContinues(exists, attempts) == exists /\ attempts < MaxAttempts

\* generateShortCode(url) and generateShortCode(url, salt) as the ladder calls
\* them, and the fallback code of each Date.now(): evaluated once per input
CandidateOf ==
    [ url \in Urls \ {""}, salt \in Salts \cup {""} |->
          generateShortCode(url, salt) ]

FallbackOf == [ now \in Timestamps |-> TimestampCode(now) ]

\* `${process.env.BASE_URL || ...}/${shortCode}`
ShortUrl(shortCode) == <<BaseUrl, "/">> \o shortCode

-----------------------------------------------------------------------------
(* POST /api/shorten *)

\* the request arrives; the handler runs up to `await Url.findOne({ originalUrl })`
PostShorten(p, originalUrl) ==
    /\ CanReceive(p)
    /\ nStarted' = nStarted + 1
    /\ IF originalUrl = ""
       THEN req' = [req EXCEPT ![p] =
                [ IdleReq EXCEPT !.pc = "done", !.op = "shorten",
                                 !.known = issued,
                                 !.res = Res(400, "URL is required") ]]
       ELSE req' = [req EXCEPT ![p] =
                [ IdleReq EXCEPT !.pc = "find", !.op = "shorten",
                                 !.originalUrl = originalUrl,
                                 !.known = issued, !.nStore = 1 ]]
    /\ UNCHANGED <<records, served, issued, probe, browser>>

\* findOne({ originalUrl }) answers; on null generateUniqueCode starts and
\* runs up to its first `await checkExists(shortCode)`
FindExisting(p) ==
    /\ req[p].pc = "find"
    /\ LET id == FindOneByOriginalUrl(records, req[p].originalUrl)
       IN  IF id # 0
           THEN /\ req' = [req EXCEPT ![p].pc = "done",
                              ![p].res = [ NoRes EXCEPT
                                  !.status = 200,
                                  !.originalUrl = records[id].originalUrl,
                                  !.shortUrl = records[id].shortUrl,
                                  !.shortCode = records[id].shortCode ]]
                /\ issued' = issued \cup
                       { <<records[id].originalUrl, records[id].shortCode>> }
           ELSE /\ LET code == CandidateOf[req[p].originalUrl, ""]
                   IN  req' = [req EXCEPT ![p].pc = "check",
                                  ![p].shortCode = code,
                                  ![p].candidate = code,
                                  ![p].attempts = 0,
                                  ![p].nChecks = 1,
                                  ![p].nStore = @ + 1]
                /\ UNCHANGED issued
    /\ UNCHANGED <<records, served, nStarted, probe, browser>>

\* one answer of `await checkExists(shortCode)`: the loop of generateUniqueCode
\* either draws a salt and checks again, or ends, takes the timestamp code
\* when attempts >= 10, and returns (the handler then calls newUrl.save()).
\* CheckAnswer is that step with the server's checkExists, whose answer is
\* findOne({ shortCode: code }) on the collection.
LoopStep(p, exists) ==
    /\ req[p].pc = "check"
    /\     IF LoopContinues(exists, req[p].attempts)
           THEN \E salt \in Salts :
                  LET code == CandidateOf[req[p].originalUrl, salt]
                  IN  req' = [req EXCEPT ![p].shortCode = code,
                                 ![p].candidate = code,
                                 ![p].attempts = @ + 1,
                                 ![p].answer = exists,
                                 ![p].nChecks = @ + 1,
                                 ![p].nStore = @ + 1]
           ELSE IF req[p].attempts >= MaxAttempts
                THEN \E now \in Timestamps :
                       req' = [req EXCEPT ![p].pc = "save",
                                  ![p].answer = exists,
                                  ![p].shortCode = FallbackOf[now],
                                  ![p].nStore = @ + 1]
                ELSE req' = [req EXCEPT ![p].pc = "save",
                                ![p].answer = exists,
                                ![p].nStore = @ + 1]
    /\ UNCHANGED <<records, served, nStarted, issued, probe, browser>>

CheckAnswer(p) == LoopStep(p, checkExists(records, req[p].shortCode))

\* newUrl.save() is executed by the store: the unique index on shortCode
\* admits the insert or fails it (caught: 500)
SaveNewUrl(p) ==
    /\ req[p].pc = "save"
    /\ LET shortCode == req[p].shortCode
           shortUrl == ShortUrl(shortCode)
       IN  IF UniqueIndexAdmits(records, shortCode)
           THEN /\ records' = Append(records,
                       NewUrl(req[p].originalUrl, shortCode, shortUrl))
                /\ served' = Append(served, 0)
                /\ issued' = issued \cup { <<req[p].originalUrl, shortCode>> }
                /\ req' = [req EXCEPT ![p].pc = "done",
                              ![p].res = [ NoRes EXCEPT
                                  !.status = 200,
                                  !.originalUrl = req[p].originalUrl,
                                  !.shortUrl = shortUrl,
                                  !.shortCode = shortCode ]]
           ELSE /\ req' = [req EXCEPT ![p].pc = "done",
                              ![p].failedAt = "unique",
                              ![p].res = Res(500, "Server error")]
                /\ UNCHANGED <<records, served, issued>>
    /\ UNCHANGED <<nStarted, probe, browser>>

-----------------------------------------------------------------------------
(* GET /:shortCode and GET /api/url/:shortCode *)

\* the request arrives; the handler validates the format and runs up to
\* `await Url.findOne({ shortCode })`
Receive(p, op, shortCode) ==
    /\ CanReceive(p)
    /\ nStarted' = nStarted + 1
    /\ IF ~validateShortCode(shortCode)
       THEN req' = [req EXCEPT ![p] =
                [ IdleReq EXCEPT !.pc = "done", !.op = op,
                                 !.param = shortCode, !.known = issued,
                                 !.res = Res(400, "Invalid short code format") ]]
       ELSE req' = [req EXCEPT ![p] =
                [ IdleReq EXCEPT !.pc = "lookup", !.op = op,
                                 !.param = shortCode, !.known = issued,
                                 !.nStore = 1 ]]
    /\ UNCHANGED <<records, served, issued, probe, browser>>

\* app.get('/', ...) is the route of the empty segment; '/:shortCode' needs
\* at least one character
MatchesRoot(segment) == segment = <<>>

\* app.get('/health', ...), registered before app.get('/:shortCode', ...);
\* Express matches without regard to case ('case sensitive routing' is not
\* set)
MatchesHealth(segment) ==
    /\ Len(segment) = 6
    /\ segment[1] \in { "h", "H" }
    /\ segment[2] \in { "e", "E" }
    /\ segment[3] \in { "a", "A" }
    /\ segment[4] \in { "l", "L" }
    /\ segment[5] \in { "t", "T" }
    /\ segment[6] \in { "h", "H" }

\* the root and health handlers answer 200 { status: 'OK', ... } at once and
\* never call next(): no validation, no store call
StatusPage(p, op, segment) ==
    /\ CanReceive(p)
    /\ nStarted' = nStarted + 1
    /\ req' = [req EXCEPT ![p] =
           [ IdleReq EXCEPT !.pc = "done", !.op = op, !.param = segment,
                            !.known = issued,
                            !.res = [ NoRes EXCEPT !.status = 200,
                                                   !.bodyStatus = "OK" ] ]]
    /\ UNCHANGED <<records, served, issued, probe, browser>>

\* GET /<segment>: the first registered route that matches answers
GetRedirect(p, segment) ==
    IF MatchesRoot(segment)
    THEN StatusPage(p, "root", segment)
    ELSE IF MatchesHealth(segment)
         THEN StatusPage(p, "health", segment)
         ELSE Receive(p, "redirect", segment)

GetUrlInfo(p, shortCode) == Receive(p, "info", shortCode)

\* findOne({ shortCode }) answers: null is answered 404; on a document the
\* handler runs `url.clicks += 1` and calls url.save()
Lookup(p) ==
    /\ req[p].pc = "lookup"
    /\ LET id == FindOneByShortCode(records, req[p].param)
       IN  IF id = 0
           THEN req' = [req EXCEPT ![p].pc = "done",
                           ![p].res = Res(404, "URL not found")]
           ELSE req' = [req EXCEPT ![p].pc = "inc",
                           ![p].doc = [ id |-> id,
                                        originalUrl |-> records[id].originalUrl,
                                        shortCode |-> records[id].shortCode,
                                        clicks |-> records[id].clicks + 1 ],
                           ![p].nStore = @ + 1]
    /\ UNCHANGED <<records, served, nStarted, issued, probe, browser>>

\* url.save() is executed by the store ($set of the modified path clicks on
\* the document's _id), then the handler answers
SaveClicks(p) ==
    /\ req[p].pc = "inc"
    /\ LET doc == req[p].doc
       IN  /\ records' = [records EXCEPT ![doc.id].clicks = doc.clicks]
           /\ served' = [served EXCEPT ![doc.id] = @ + 1]
           /\ req' = [req EXCEPT ![p].pc = "done",
                         ![p].res =
                            IF req[p].op = "redirect"
                            THEN [ NoRes EXCEPT !.status = 301,
                                                !.originalUrl = doc.originalUrl ]
                            ELSE [ NoRes EXCEPT !.status = 200,
                                                !.originalUrl = doc.originalUrl,
                                                !.shortCode = doc.shortCode,
                                                !.clicks = doc.clicks ]]
    /\ UNCHANGED <<nStarted, issued, probe, browser>>

-----------------------------------------------------------------------------
(* The browser cache (App.jsx), kept in localStorage under CACHE_KEY.
   JSON.stringify and JSON.parse give a string and an integer back as they
   were, so an entry is the pair that was written.  Each function is
   synchronous and runs to its end; Date.now() is read once per call and is
   counted in ms from the page's first load. *)

\* 60 * 60 * 1000
CACHE_TTL == 3600000

\* `cache[shortCode]` of a key that is absent (undefined)
NoEntry == [ originalUrl |-> "", timestamp |-> -1 ]

\* `return null`
Null == "null"

CacheCodes == { "2KIjyT", "4UtEZs" }

CacheUrls == Urls \ { "" }

\* what Date.now() advances by between two calls
ClockSteps == { 1, CACHE_TTL - 1 }

\* JSON.parse(localStorage.getItem(CACHE_KEY) || '{}') of a new browser
EmptyCache == [ c \in CacheCodes |-> NoEntry ]

\* cache: the stored object; call, code, ret: the last call and what it
\* returned; at, before: Date.now() and the stored object as that call read
\* them; written: per code, the last entry setToCache wrote; ticks: advances
BrowserOff ==
    [ now |-> 0, ticks |-> 0, cache |-> EmptyCache, written |-> EmptyCache,
      call |-> "none", code |-> "", ret |-> Null, at |-> 0,
      before |-> EmptyCache ]

\* `Date.now() - cached.timestamp < CACHE_TTL`
FreshInclusive(now, timestamp) == now - timestamp <= CACHE_TTL
Fresh(now, timestamp) == now - timestamp < CACHE_TTL

getFromCache(shortCode) ==
    LET cached == browser.cache[shortCode]
        called == [ browser EXCEPT !.call = "get", !.code = shortCode,
                                   !.at = browser.now,
                                   !.before = browser.cache ]
    IN  /\ IF cached # NoEntry /\ Fresh(browser.now, cached.timestamp)
           THEN browser' = [ called EXCEPT !.ret = cached.originalUrl ]
           ELSE browser' = [ called EXCEPT !.ret = Null,
                                           !.cache[shortCode] = NoEntry ]
        /\ UNCHANGED <<records, req, nStarted, served, issued, probe>>

setToCache(shortCode, originalUrl) ==
    LET entry == [ originalUrl |-> originalUrl, timestamp |-> browser.now ]
    IN  /\ browser' = [ browser EXCEPT !.call = "set", !.code = shortCode,
                                       !.ret = Null, !.at = browser.now,
                                       !.before = browser.cache,
                                       !.cache[shortCode] = entry,
                                       !.written[shortCode] = entry ]
        /\ UNCHANGED <<records, req, nStarted, served, issued, probe>>

\* time passes between two calls
Tick(ms) ==
    /\ browser.ticks < MaxTicks
    /\ browser' = [ browser EXCEPT !.now = @ + ms, !.ticks = @ + 1 ]
    /\ UNCHANGED <<records, req, nStarted, served, issued, probe>>

NextCache ==
    \/ \E shortCode \in CacheCodes : getFromCache(shortCode)
    \/ \E shortCode \in CacheCodes, originalUrl \in CacheUrls :
           setToCache(shortCode, originalUrl)
    \/ \E ms \in ClockSteps : Tick(ms)

-----------------------------------------------------------------------------
(* The server *)

ProbeOff == [ stage |-> "off", kind |-> "none", num |-> <<>>, code |-> <<>>,
              valid |-> FALSE ]

Init ==
    /\ records = <<>>
    /\ req = [p \in Procs |-> IdleReq]
    /\ nStarted = 0
    /\ served = <<>>
    /\ issued = {}
    /\ probe = ProbeOff
    /\ browser = BrowserOff

Next ==
    \E p \in Procs :
        \/ \E originalUrl \in Urls : PostShorten(p, originalUrl)
        \/ FindExisting(p)
        \/ CheckAnswer(p)
        \/ SaveNewUrl(p)
        \/ \E segment \in Segments : GetRedirect(p, segment)
        \/ \E shortCode \in Params : GetUrlInfo(p, shortCode)
        \/ Lookup(p)
        \/ SaveClicks(p)

Spec == Init /\ [][Next]_vars

\* the browser alone
SpecCache == Init /\ [][NextCache]_vars

-----------------------------------------------------------------------------
(* The same server with a store whose calls can fail (connection lost,      *)
(* timeout): the awaited promise rejects and the handler's catch answers    *)

\* catch (error) { res.status(500).json({ error: 'Server error' }) }
ServerError(r, at) ==
    [ r EXCEPT !.pc = "done", !.failedAt = at, !.res = Res(500, "Server error") ]

\* `await checkExists(shortCode)` rejects: generateUniqueCode rejects with it
\* and the handler's catch answers
CheckRejectsAsAbsent(r) ==
    [ r EXCEPT !.pc = "save", !.failedAt = "check", !.answer = FALSE ]
CheckRejects(r) == ServerError(r, "check")

FindExistingFails(p) ==
    /\ req[p].pc = "find"
    /\ req' = [req EXCEPT ![p] = ServerError(req[p], "find")]
    /\ UNCHANGED <<records, served, nStarted, issued, probe, browser>>

CheckFails(p) ==
    /\ req[p].pc = "check"
    /\ req' = [req EXCEPT ![p] = CheckRejects(req[p])]
    /\ UNCHANGED <<records, served, nStarted, issued, probe, browser>>

SaveNewUrlFails(p) ==
    /\ req[p].pc = "save"
    /\ req' = [req EXCEPT ![p] = ServerError(req[p], "save")]
    /\ UNCHANGED <<records, served, nStarted, issued, probe, browser>>

LookupFails(p) ==
    /\ req[p].pc = "lookup"
    /\ req' = [req EXCEPT ![p] = ServerError(req[p], "lookup")]
    /\ UNCHANGED <<records, served, nStarted, issued, probe, browser>>

SaveClicksFails(p) ==
    /\ req[p].pc = "inc"
    /\ req' = [req EXCEPT ![p] = ServerError(req[p], "inc")]
    /\ UNCHANGED <<records, served, nStarted, issued, probe, browser>>

NextFault ==
    \E p \in Procs :
        \/ \E originalUrl \in Urls : PostShorten(p, originalUrl)
        \/ FindExisting(p)
        \/ FindExistingFails(p)
        \/ CheckAnswer(p)
        \/ CheckFails(p)
        \/ SaveNewUrl(p)
        \/ SaveNewUrlFails(p)
        \/ \E segment \in Segments : GetRedirect(p, segment)
        \/ \E shortCode \in Params : GetUrlInfo(p, shortCode)
        \/ Lookup(p)
        \/ LookupFails(p)
        \/ SaveClicks(p)
        \/ SaveClicksFails(p)

SpecFault == Init /\ [][NextFault]_vars

-----------------------------------------------------------------------------
(* The same server with its requests arriving one after the other *)

Quiet == \A q \in Procs : req[q].pc \in { "idle", "done" }

NextSeq ==
    \E p \in Procs :
        \/ Quiet /\ \E originalUrl \in Urls : PostShorten(p, originalUrl)
        \/ FindExisting(p)
        \/ CheckAnswer(p)
        \/ SaveNewUrl(p)
        \/ Quiet /\ \E segment \in Segments : GetRedirect(p, segment)
        \/ Quiet /\ \E shortCode \in Params : GetUrlInfo(p, shortCode)
        \/ Lookup(p)
        \/ SaveClicks(p)

SpecSeq == Init /\ [][NextSeq]_vars

-----------------------------------------------------------------------------
(* generateUniqueCode(originalUrl, checkExists) on its own, called with an
   arbitrary checkExists: each awaited answer is either boolean.  The
   predicate always answers, so a call that waits for an answer gets one. *)

\* the call runs up to its first `await checkExists(shortCode)`
CallGenerateUniqueCode(p, originalUrl) ==
    /\ CanReceive(p)
    /\ nStarted' = nStarted + 1
    /\ LET code == CandidateOf[originalUrl, ""]
       IN  req' = [req EXCEPT ![p] =
               [ IdleReq EXCEPT !.pc = "check", !.op = "generate",
                                !.originalUrl = originalUrl,
                                !.shortCode = code, !.candidate = code,
                                !.attempts = 0, !.nChecks = 1 ]]
    /\ UNCHANGED <<records, served, issued, probe, browser>>

AnyAnswer(p) == \E exists \in BOOLEAN : LoopStep(p, exists)

\* `return shortCode`
ReturnShortCode(p) ==
    /\ req[p].pc = "save"
    /\ req[p].op = "generate"
    /\ req' = [req EXCEPT ![p].pc = "done",
                  ![p].res = [ NoRes EXCEPT !.shortCode = req[p].shortCode ]]
    /\ UNCHANGED <<records, served, nStarted, issued, probe, browser>>

NextUnique ==
    \E p \in Procs :
        \/ \E originalUrl \in Urls \ {""} : CallGenerateUniqueCode(p, originalUrl)
        \/ AnyAnswer(p)
        \/ ReturnShortCode(p)

SpecUnique ==
    /\ Init
    /\ [][NextUnique]_vars
    /\ \A p \in Procs : WF_vars(AnyAnswer(p)) /\ WF_vars(ReturnShortCode(p))

-----------------------------------------------------------------------------
(* The encoder on its own: generateShortCode from the digest prefix on, the  *)
(* timestamp fallback, and validateShortCode on what they return             *)

\* the 8 hex characters of a digest: every string over 0, 3, f (00000000 and
\* ffffffff among them) and the digests of the inputs
HexSamples ==
    [ 1..8 -> { "0", "3", "f" } ]
        \cup { Md5Hex8(url \o salt) : url \in Urls \ {""}, salt \in Salts }

\* Date.now(): every 11-digit value over the hex digits 0 and f (0 among
\* them), the timestamps of the server runs, 62^6 - 1, 62^6 and 2^53 - 1
TimestampSamples ==
    [ 1..11 -> { 0, 15 } ]
        \cup Timestamps
        \cup { <<13,3,9,8,14,13,0,3,15>>, <<13,3,9,8,14,13,0,4,0>>,
               <<1,15,15,15,15,15,15,15,15,15,15,15,15,15>> }

InitCodes ==
    /\ records = <<>>
    /\ req = [p \in Procs |-> IdleReq]
    /\ nStarted = 0
    /\ served = <<>>
    /\ issued = {}
    /\ browser = BrowserOff
    /\ probe \in
          { [ ProbeOff EXCEPT !.stage = "input", !.kind = "digest", !.num = hex ] :
                hex \in HexSamples }
          \cup
          { [ ProbeOff EXCEPT !.stage = "input", !.kind = "timestamp", !.num = now ] :
                now \in TimestampSamples }

ProbeShortCode ==
    /\ probe.stage = "input"
    /\ probe.kind = "digest"
    /\ probe' = [probe EXCEPT !.stage = "coded", !.code = ShortCodeOfHex(probe.num)]
    /\ UNCHANGED <<records, req, nStarted, served, issued, browser>>

ProbeFallback ==
    /\ probe.stage = "input"
    /\ probe.kind = "timestamp"
    /\ probe' = [probe EXCEPT !.stage = "coded", !.code = TimestampCode(probe.num)]
    /\ UNCHANGED <<records, req, nStarted, served, issued, browser>>

ProbeValidate ==
    /\ probe.stage = "coded"
    /\ probe' = [probe EXCEPT !.stage = "validated",
                              !.valid = validateShortCode(probe.code)]
    /\ UNCHANGED <<records, req, nStarted, served, issued, browser>>

\* the number the encoder is given: parseInt(hex, 16) or Date.now()
ProbeValue ==
    IF probe.kind = "digest" THEN parseInt16(probe.num) ELSE probe.num

ProbeBase62 ==
    /\ probe.stage = "input"
    /\ probe' = [probe EXCEPT !.stage = "encoded",
                              !.code = generateBase62(ProbeValue)]
    /\ UNCHANGED <<records, req, nStarted, served, issued, browser>>

NextCodes == ProbeShortCode \/ ProbeFallback \/ ProbeValidate \/ ProbeBase62

SpecCodes == InitCodes /\ [][NextCodes]_vars

-----------------------------------------------------------------------------
(* Properties *)

Ids == 1..Len(records)

Carries(code) == \E i \in Ids : records[i].shortCode = code

WellFormed(code) ==
    /\ Len(code) = 6
    /\ \A i \in 1..Len(code) : code[i] \in BASE62_CHARS

IsResolve(p) == req[p].op \in { "redirect", "info" }

TookFallback(p) == req[p].attempts >= MaxAttempts

\* C1: no two stored records share a shortCode, whatever the interleaving of
\* Create and Resolve requests; an insert of a code that a stored record
\* carries is refused by the store and adds no record.
C1_UniqueShortCode ==
    \A i, j \in Ids : i # j => records[i].shortCode # records[j].shortCode

\* a save of a code already stored was refused (answered 500) and the store
\* still holds one record with that code
C1_Witness ==
    \E p \in Procs :
        /\ req[p].op = "shorten"
        /\ req[p].pc = "done"
        /\ req[p].res.status = 500
        /\ Carries(req[p].shortCode)

\* C2: once a Create has answered shortCode c for URL u, every Resolve of c
\* received later answers Found with exactly u; a Resolve of a well-formed
\* code that no stored record carries when the store is queried answers 404.
C2_FoundAnswersUrl ==
    \A p \in Procs :
        (IsResolve(p) /\ req[p].pc = "done") =>
            \A pair \in req[p].known :
                pair[2] = req[p].param =>
                    /\ req[p].res.status \in { 200, 301 }
                    /\ req[p].res.originalUrl = pair[1]

C2_AbsentAnswers404 ==
    \A p \in Procs :
        (req[p].pc = "lookup" /\ req'[p].pc # "lookup"
            /\ ~Carries(req[p].param)) =>
                (req'[p].pc = "done" /\ req'[p].res.status = 404)

C2_ResolveReturnsUrl == []C2_FoundAnswersUrl /\ [][C2_AbsentAnswers404]_vars

\* a redirect answered for a code issued before it was received, with two
\* records stored and other resolutions of the record answered before
C2_Witness ==
    \E p \in Procs :
        /\ req[p].op = "redirect"
        /\ req[p].pc = "done"
        /\ req[p].res.status = 301
        /\ <<req[p].res.originalUrl, req[p].param>> \in req[p].known
        /\ Len(records) >= 2

\* C3: generateUniqueCode returns the first candidate for which checkExists
\* answered false, and the timestamp code only when checkExists answered true
\* for the unsalted candidate and for all 10 salted ones.
C3_FirstFreeCandidate ==
    \A p \in Procs :
        req[p].pc = "save" =>
            /\ req[p].answer = FALSE => req[p].shortCode = req[p].candidate
            /\ TookFallback(p) => (req[p].answer = TRUE /\ req[p].nChecks = 11)

\* C4 as claimed: when the handler is about to insert the code returned by
\* generateUniqueCode, no stored record carries it.
C4_AbsentAtInsert ==
    \A p \in Procs : req[p].pc = "save" => ~Carries(req[p].shortCode)

\* C4 as amended: a code returned from the unsalted or a salted candidate
\* was carried by no record when checkExists answered for it.
C4_AbsentWhenChecked ==
    [][ \A p \in Procs :
          (req[p].pc = "check" /\ req'[p].pc = "save" /\ ~TookFallback(p)) =>
              /\ req'[p].shortCode = req[p].candidate
              /\ ~Carries(req'[p].shortCode) ]_vars

\* a salted candidate was returned while the store holds records
C4_Witness ==
    \E p \in Procs :
        /\ req[p].pc = "save"
        /\ req[p].attempts > 0
        /\ ~TookFallback(p)
        /\ req[p].shortCode = req[p].candidate
        /\ Len(records) >= 1

\* C5 as claimed: one call of generateUniqueCode calls checkExists at most
\* 10 times.
C5_AtMostTenChecks ==
    \A p \in Procs : req[p].nChecks <= 10

\* C5 as amended: one call of generateUniqueCode calls checkExists at most
\* 11 times, once for the unsalted candidate and once for each of the 10
\* salted ones.
C5_AtMostElevenChecks ==
    \A p \in Procs : req[p].nChecks <= 11

\* the ladder ran to its end and the timestamp code was taken
C5_Witness ==
    \E p \in Procs :
        /\ req[p].pc = "save"
        /\ TookFallback(p)
        /\ req[p].nChecks = 11

\* C6: every code made from a 32-bit digest prefix, and every timestamp
\* fallback code, has exactly 6 characters, all of the 62-character alphabet,
\* and validateShortCode accepts it.
C6_CodesWellFormed ==
    /\ probe.stage \in { "coded", "validated" } =>
          /\ Len(probe.code) = 6
          /\ \A i \in 1..Len(probe.code) : probe.code[i] \in BASE62_CHARS
    /\ probe.stage = "validated" => probe.valid

\* the code of the timestamp 2^53 - 1, whose encoding has 9 characters, was
\* validated
C6_Witness ==
    /\ probe.stage = "validated"
    /\ probe.kind = "timestamp"
    /\ probe.num = <<1,15,15,15,15,15,15,15,15,15,15,15,15,15>>
    /\ Len(generateBase62(probe.num)) = 9
    /\ probe.valid

\* C7: a Resolve is answered 400 exactly when its code is not 6 characters of
\* the alphabet, and then the handler has made no store call.
C7_FormatBeforeStore ==
    \A p \in Procs :
        (IsResolve(p) /\ req[p].pc # "idle") =>
            /\ req[p].res.status = 400 <=> ~WellFormed(req[p].param)
            /\ ~WellFormed(req[p].param) =>
                  /\ req[p].pc = "done"
                  /\ req[p].nStore = 0
                  /\ req[p].doc = NoDoc

\* a code of 6 characters with one outside the alphabet was answered 400
C7_Witness ==
    \E p \in Procs :
        /\ req[p].op = "redirect"
        /\ req[p].pc = "done"
        /\ req[p].res.status = 400
        /\ Len(req[p].param) = 6
        /\ Len(records) >= 1

\* C8: with requests handled one after the other, a Create of a URL that a
\* record carries answers that record's originalUrl, shortUrl and shortCode,
\* calls no checkExists, inserts nothing and changes no record; a URL
\* shortened again gets the same shortCode and the store holds one record
\* for it.
C8_ExistingAnswered ==
    \A p \in Procs :
        (req[p].pc = "find" /\ req'[p].pc = "done") =>
            /\ records' = records
            /\ req'[p].nChecks = 0
            /\ \E i \in Ids :
                  /\ records[i].originalUrl = req[p].originalUrl
                  /\ req'[p].res.status = 200
                  /\ req'[p].res.originalUrl = records[i].originalUrl
                  /\ req'[p].res.shortUrl = records[i].shortUrl
                  /\ req'[p].res.shortCode = records[i].shortCode

C8_SameCodeAgain ==
    /\ \A p \in Procs :
          (req[p].op = "shorten" /\ req[p].pc = "done") =>
              \A pair \in req[p].known :
                  pair[1] = req[p].originalUrl =>
                      /\ req[p].res.status = 200
                      /\ req[p].res.shortCode = pair[2]
                      /\ req[p].nChecks = 0
    /\ \A i, j \in Ids :
          i # j => records[i].originalUrl # records[j].originalUrl

C8_IdempotentCreate == []C8_SameCodeAgain /\ [][C8_ExistingAnswered]_vars

\* a URL shortened before was shortened again, after its record was resolved
C8_Witness ==
    \E p \in Procs :
        /\ req[p].op = "shorten"
        /\ req[p].pc = "done"
        /\ req[p].nChecks = 0
        /\ <<req[p].originalUrl, req[p].res.shortCode>> \in req[p].known
        /\ \E i \in Ids : /\ records[i].originalUrl = req[p].originalUrl
                         /\ records[i].clicks > 0

\* C9 as claimed: at most one record is stored for an originalUrl, whatever
\* the interleaving of the Creates for it.
C9_OneRecordPerUrl ==
    \A i, j \in Ids : i # j => records[i].originalUrl # records[j].originalUrl

\* C9 as amended: the records stored for one originalUrl carry pairwise
\* different shortCodes (there can be two of them).
C9_OneRecordPerUrlAndCode ==
    \A i, j \in Ids :
        (i # j /\ records[i].originalUrl = records[j].originalUrl) =>
            records[i].shortCode # records[j].shortCode

\* two Creates of one URL raced and both inserted a record
C9_Witness ==
    \E i, j \in Ids :
        /\ i # j
        /\ records[i].originalUrl = records[j].originalUrl
        /\ records[i].shortCode # records[j].shortCode

\* C10: after n resolutions of a code have been answered, overlapping ones
\* included, the clicks of its record have increased by exactly n.
C10_ClicksCountResolutions ==
    \A i \in Ids : records[i].clicks = served[i]


\* C11: the clicks of every record are an integer >= 0, 0 when the record is
\* created, and never decrease from one state to the next.
C11_ClicksNeverDecrease ==
    /\ [](\A i \in Ids : records[i].clicks \in Nat)
    /\ [][ /\ \A i \in Ids : records'[i].clicks >= records[i].clicks
           /\ \A i \in (1..Len(records')) \ Ids : records'[i].clicks = 0 ]_vars

\* C13: when the store refuses the insert because a record carries the code,
\* Create answers 500, calls neither checkExists nor save again and leaves
\* the stored records as they are.
C13_RejectedInsert ==
    /\ [][ \A p \in Procs :
             (req[p].pc = "save" /\ req'[p] # req[p]
                 /\ Carries(req[p].shortCode)) =>
                   /\ req'[p].pc = "done"
                   /\ req'[p].res.status = 500
                   /\ req'[p].nChecks = req[p].nChecks
                   /\ req'[p].nStore = req[p].nStore
                   /\ records' = records ]_vars
    /\ [](\A p \in Procs :
             req[p].failedAt = "unique" =>
                 (req[p].pc = "done" /\ req[p].res.status = 500))

\* two Creates took the same timestamp code and the second was refused
C13_Witness ==
    \E p \in Procs :
        /\ req[p].op = "shorten"
        /\ req[p].pc = "done"
        /\ req[p].failedAt = "unique"
        /\ TookFallback(p)
        /\ req[p].res.status = 500

\* C17: records are never deleted and their shortCode, originalUrl and
\* shortUrl never change; a Resolve changes at most the clicks of the one
\* record that carries its code, and a Create changes no stored record.
C17_Frame ==
    [][ /\ Len(records') >= Len(records)
        /\ \A i \in Ids :
              /\ records'[i].originalUrl = records[i].originalUrl
              /\ records'[i].shortCode = records[i].shortCode
              /\ records'[i].shortUrl = records[i].shortUrl
              /\ records'[i].clicks # records[i].clicks =>
                    /\ Len(records') = Len(records)
                    /\ \A j \in Ids \ {i} : records'[j] = records[j]
                    /\ \E p \in Procs :
                          /\ IsResolve(p)
                          /\ req'[p] # req[p]
                          /\ records[i].shortCode = req[p].param
        /\ \A p \in Procs :
              (req[p].op = "shorten" /\ req'[p] # req[p]) =>
                  \A i \in Ids : records'[i] = records[i] ]_vars

\* a record was resolved and then another record was created
C17_Witness ==
    /\ Len(records) >= 2
    /\ records[1].clicks >= 1
    /\ records[2].clicks = 0
    /\ \E p \in Procs : /\ req[p].op = "shorten"
                        /\ req[p].pc = "done"
                        /\ req[p].res.shortCode = records[2].shortCode
                        /\ <<req[p].originalUrl, req[p].res.shortCode>>
                               \notin req[p].known


\* C12: when the store write of the incremented clicks fails during a Resolve
\* of a stored well-formed code, the Resolve still answers Found with the
\* record's original URL.
C12_FoundDespiteFailedIncrement ==
    \A p \in Procs :
        req[p].failedAt = "inc" =>
            /\ req[p].res.status \in { 200, 301 }
            /\ req[p].res.originalUrl = req[p].doc.originalUrl

\* C14: when a checkExists call fails at any step of the ladder, the failure
\* is not taken for an absent code: no code is returned, Create answers 500
\* and inserts no record.
C14_CheckFailurePropagates ==
    /\ [](\A p \in Procs :
             req[p].failedAt = "check" =>
                 /\ req[p].pc = "done"
                 /\ req[p].res.status = 500
                 /\ req[p].res.shortCode = <<>>)
    /\ [][ \A p \in Procs :
             (req[p].failedAt # "check" /\ req'[p].failedAt = "check") =>
                 records' = records ]_vars

\* a checkExists call on a salted candidate failed
C14_Witness ==
    \E p \in Procs :
        /\ req[p].failedAt = "check"
        /\ req[p].attempts > 0
        /\ req[p].pc = "done"
        /\ Len(records) >= 1

InvalidInput(p) ==
    IF req[p].op = "shorten"
    THEN req[p].originalUrl = ""
    ELSE ~WellFormed(req[p].param)

\* C15: an answered Create or Resolve (a request that reached the shorten
\* handler or one of the two lookup handlers; the status pages of GET / and
\* GET /health are neither) has one status; it is 400 exactly when the input
\* is invalid (empty originalUrl, malformed code) and then no store call was
\* made, 404 exactly when the code is well-formed and the store, queried
\* without failure, held no record carrying it, 500 exactly when a store call
\* failed.
C15_StatusOfAnswer ==
    \A p \in Procs :
        (req[p].pc = "done" /\ (req[p].op = "shorten" \/ IsResolve(p))) =>
            /\ req[p].res.status \in { 200, 301, 400, 404, 500 }
            /\ req[p].res.status = 400 <=> InvalidInput(p)
            /\ req[p].res.status = 400 => req[p].nStore = 0
            /\ req[p].res.status = 404 <=>
                  /\ IsResolve(p)
                  /\ WellFormed(req[p].param)
                  /\ req[p].failedAt = ""
                  /\ req[p].doc = NoDoc
            /\ req[p].res.status = 500 <=> req[p].failedAt # ""

C15_NotFoundWhenAbsent ==
    \A p \in Procs :
        (req[p].pc = "lookup" /\ req'[p] # req[p] /\ req'[p].failedAt = "") =>
            (req'[p].res.status = 404 <=> ~Carries(req[p].param))

C15_StatusByCause == []C15_StatusOfAnswer /\ [][C15_NotFoundWhenAbsent]_vars

\* one request was answered 500 after its url.save() failed, another 400
C15_Witness ==
    \E p, q \in Procs :
        /\ req[p].pc = "done"
        /\ req[p].failedAt = "inc"
        /\ req[p].res.status = 500
        /\ req[q].pc = "done"
        /\ req[q].op = "shorten"
        /\ req[q].res.status = 400


\* C16: when the base-62 encoding of the digest prefix or of the timestamp
\* has more than 6 characters the code is its 6 rightmost characters; when it
\* has fewer the code is the encoding padded with "0" on the left.
RECURSIVE ZeroPadded(_)
ZeroPadded(code) == IF Len(code) < 6 THEN ZeroPadded(<<"0">> \o code) ELSE code

C16_KeepsRightmost ==
    probe.stage \in { "coded", "validated" } =>
        LET enc == generateBase62(ProbeValue)
        IN  probe.code = IF Len(enc) > 6
                         THEN SubSeq(enc, Len(enc) - 5, Len(enc))
                         ELSE ZeroPadded(enc)

\* the alphabet 0-9A-Za-z and the reference decoder: the value of a base-62
\* string, most significant digit first, as hexadecimal digits
RefAlphabet ==
    << "0","1","2","3","4","5","6","7","8","9" >>
    \o << "A","B","C","D","E","F","G","H","I","J","K","L","M" >>
    \o << "N","O","P","Q","R","S","T","U","V","W","X","Y","Z" >>
    \o << "a","b","c","d","e","f","g","h","i","j","k","l","m" >>
    \o << "n","o","p","q","r","s","t","u","v","w","x","y","z" >>

RefDigit(ch) == (CHOOSE i \in 1..Len(RefAlphabet) : RefAlphabet[i] = ch) - 1

RECURSIVE RefCarry(_)
RefCarry(carry) ==
    IF carry = 0 THEN <<>> ELSE Append(RefCarry(carry \div 16), carry % 16)

\* num * 62 + carry, on hexadecimal digits, from the last digit to the first
RECURSIVE RefMulAdd(_, _, _, _)
RefMulAdd(num, i, carry, out) ==
    IF i = 0
    THEN RefCarry(carry) \o out
    ELSE LET cur == num[i] * 62 + carry
         IN  RefMulAdd(num, i - 1, cur \div 16, <<cur % 16>> \o out)

RECURSIVE RefDecodeFrom(_, _, _)
RefDecodeFrom(code, i, acc) ==
    IF i > Len(code)
    THEN acc
    ELSE RefDecodeFrom(code, i + 1, RefMulAdd(acc, Len(acc), RefDigit(code[i]), <<>>))

RefDecode(code) == RefDecodeFrom(code, 1, <<>>)

RECURSIVE Normal(_)
Normal(num) ==
    IF Len(num) > 0 /\ num[1] = 0 THEN Normal(Tail(num)) ELSE num

\* C19: generateBase62 writes n in base 62 over 0-9A-Za-z, most significant
\* digit first: "0" for 0, no leading "0" for n > 0, and the reference
\* decoder gives n back.
C19_Base62RoundTrip ==
    probe.stage = "encoded" =>
        /\ Len(probe.code) >= 1
        /\ \A i \in 1..Len(probe.code) :
              \E k \in 1..Len(RefAlphabet) : RefAlphabet[k] = probe.code[i]
        /\ IsZero(ProbeValue) => probe.code = <<"0">>
        /\ ~IsZero(ProbeValue) => probe.code[1] # "0"
        /\ Normal(RefDecode(probe.code)) = Normal(ProbeValue)

\* 2^53 - 1 was encoded as fFgnDxSe7
C19_Witness ==
    /\ probe.stage = "encoded"
    /\ probe.num = <<1,15,15,15,15,15,15,15,15,15,15,15,15,15>>
    /\ probe.code = <<"f","F","g","n","D","x","S","e","7">>


\* C18: whatever checkExists answers, a call of generateUniqueCode makes at
\* most MaxAttempts + 1 checks, raises nothing, and returns a code of 6
\* characters.
C18_Terminates ==
    /\ [](\A p \in Procs :
            /\ req[p].attempts <= MaxAttempts
            /\ req[p].nChecks <= MaxAttempts + 1
            /\ req[p].failedAt = ""
            /\ req[p].res.status = NoRes.status)
    /\ \A p \in Procs :
          (req[p].pc = "check") ~>
              (req[p].pc = "done" /\ Len(req[p].res.shortCode) = CodeLength)

\* a call whose checkExists answered true every time has returned
C18_Witness ==
    \E p \in Procs :
        /\ req[p].op = "generate"
        /\ req[p].pc = "done"
        /\ req[p].answer
        /\ req[p].nChecks = MaxAttempts + 1
        /\ Len(req[p].res.shortCode) = CodeLength


\* C20: getFromCache returns a URL only if setToCache wrote the code's entry
\* less than CACHE_TTL before the read, and then the URL last written; a read
\* of an entry aged CACHE_TTL or more returns null and removes that entry,
\* leaving the entries of the other codes as they were.
C20_NoExpiredEntryServed ==
    browser.call = "get" =>
        LET last == browser.written[browser.code]
            cached == browser.before[browser.code]
        IN  /\ browser.ret # Null =>
                  /\ last # NoEntry
                  /\ browser.at - last.timestamp < CACHE_TTL
                  /\ browser.ret = last.originalUrl
            /\ (cached # NoEntry /\ browser.at - cached.timestamp >= CACHE_TTL) =>
                  /\ browser.ret = Null
                  /\ browser.cache[browser.code] = NoEntry
                  /\ \A c \in CacheCodes \ { browser.code } :
                        browser.cache[c] = browser.before[c]

\* an entry aged exactly CACHE_TTL was read while the other code had an entry
C20_Witness ==
    /\ browser.call = "get"
    /\ browser.before[browser.code] # NoEntry
    /\ browser.at - browser.before[browser.code].timestamp = CACHE_TTL
    /\ browser.ret = Null
    /\ \E c \in CacheCodes \ { browser.code } : browser.cache[c] # NoEntry


\* every sampled digest prefix with its code, computed once
SampleCodes == { <<hex, ShortCodeOfHex(hex)>> : hex \in HexSamples }

\* C21: padding and truncation add no collision for 32-bit digest prefixes:
\* the encoding of a prefix is never longer than 6 characters, so nothing is
\* cut off, the 6-character code decodes to the prefix, and two distinct
\* prefixes never get the same code.
C21_NoCollisionAdded ==
    (probe.stage = "coded" /\ probe.kind = "digest") =>
        /\ Len(generateBase62(ProbeValue)) <= CodeLength
        /\ Len(probe.code) = CodeLength
        /\ Normal(RefDecode(probe.code)) = Normal(ProbeValue)
        /\ \A other \in SampleCodes :
              other[1] # probe.num => other[2] # probe.code

\* ffffffff, the largest prefix, got the 6 characters of its encoding while
\* the prefix 00000003 got a padded code
C21_Witness ==
    /\ probe.stage = "coded"
    /\ probe.kind = "digest"
    /\ probe.num = <<"f","f","f","f","f","f","f","f">>
    /\ probe.code = <<"4","g","f","F","C","3">>
    /\ generateBase62(ProbeValue) = probe.code
    /\ << <<"0","0","0","0","0","0","0","3">>,
           <<"0","0","0","0","0","3">> >> \in SampleCodes

====
